---- MODULE Spec2Model ----
\* Model of the game step engine of src/snake_game.py (class SnakeGame) and of
\* the pause / quit key handlers of its game loops.
EXTENDS Integers, Sequences, FiniteSets, TLC

\* ------------------------------------------------------------------ bounds
\* Boards of every size from 1 x 1 up to MaxWidth x MaxHeight that have at
\* most MaxCells cells are explored.
MaxWidth == 3
MaxHeight == 2
MaxCells == 8

\* ------------------------------------------------------------- engine state
VARIABLES
    width, height,            \* SnakeGame.width / .height
    snake,                    \* SnakeGame.snake: sequence of cells, head first
    direction,                \* SnakeGame.direction
    next_direction,           \* SnakeGame.next_direction (the pending one)
    food,                     \* SnakeGame.food: a cell or NoFood
    score,                    \* SnakeGame.score
    state,                    \* SnakeGame.state
    moves_without_food,       \* SnakeGame.moves_without_food
    max_moves_without_food,   \* SnakeGame.max_moves_without_food
    \* history variables (not read by any action's guard or effect)
    lastOp,                   \* the operation that ran last
    lastArg,                  \* its direction argument, or "none"
    branch,                   \* the branch the last Playing update / reset took
    lastAccepted,             \* the last request accepted since the last
                              \* update or reset, or "none"
    \* the game loops and the AI player
    pc,                       \* position in play_human_mode / play_ai_mode
    mode,                     \* which of the two loops runs
    ai                        \* the AI player's last query and its answers

engine == <<width, height, snake, direction, next_direction, food, score,
            state, moves_without_food, max_moves_without_food>>
loopVars == <<pc, mode, ai>>
vars == <<width, height, snake, direction, next_direction, food, score,
          state, moves_without_food, max_moves_without_food,
          lastOp, lastArg, branch, lastAccepted, pc, mode, ai>>

\* ---------------------------------------------------------------- enums
UP == "UP"
DOWN == "DOWN"
LEFT == "LEFT"
RIGHT == "RIGHT"
Direction == {UP, DOWN, LEFT, RIGHT}

\* Direction.value
Delta(d) ==
    CASE d = UP -> <<0, -1>>
      [] d = DOWN -> <<0, 1>>
      [] d = LEFT -> <<-1, 0>>
      [] d = RIGHT -> <<1, 0>>

PLAYING == "playing"
PAUSED == "paused"
GAME_OVER == "game_over"
QUIT == "quit"
GameState == {PLAYING, PAUSED, GAME_OVER, QUIT}

\* the None that generate_food returns on a full board
NoFood == <<>>

\* ---------------------------------------------------------------- helpers
\* the cells of a deque, as a set ("in self.snake")
Cells(s) == {s[i] : i \in 1..Len(s)}

\* deque.pop(): everything but the last element
PopTailKeepsAll(s) == s
PopTail(s) == SubSeq(s, 1, Len(s) - 1)

\* generate_food, lines 57-61: every (x, y) of the board not in the snake
EmptyPositionsAll(w, h, s) ==
    {<<x, y>> : x \in 0..(w - 1), y \in 0..(h - 1)}
EmptyPositions(w, h, s) ==
    {c \in {<<x, y>> : x \in 0..(w - 1), y \in 0..(h - 1)} : c \notin Cells(s)}

\* generate_food: the values it may return (random.choice over the empty
\* positions, or None when there are none)
GenerateFoodAnyCell(w, h, s) ==
    {<<x, y>> : x \in 0..(w - 1), y \in 0..(h - 1)}
GenerateFood(w, h, s) ==
    IF EmptyPositions(w, h, s) = {} THEN {NoFood} ELSE EmptyPositions(w, h, s)

\* generate_food: its side effect on self.state (lines 63-65)
GenerateFoodState(w, h, s, st) ==
    IF EmptyPositions(w, h, s) = {} THEN GAME_OVER ELSE st

\* is_valid_direction_change
IsValidAlways(cur, new) == TRUE
IsValidDirectionChange(cur, new) ==
    <<Delta(cur)[1] + Delta(new)[1], Delta(cur)[2] + Delta(new)[2]>> # <<0, 0>>

\* update, line 84: the guard that lets an update act
UpdateActsUnlessOver(st) == st \notin {GAME_OVER, QUIT}
UpdateActs(st) == st = PLAYING

\* update, lines 88-89: the direction the step is made in
ResolvedKeepsCurrent(cur, pending) == cur
ResolvedDirection(cur, pending) ==
    IF IsValidDirectionChange(cur, pending) THEN pending ELSE cur

\* update, lines 92-94
NewHeadSwapped(s, d) == <<s[1][1] + Delta(d)[2], s[1][2] + Delta(d)[1]>>
NewHead(s, d) == <<s[1][1] + Delta(d)[1], s[1][2] + Delta(d)[2]>>

\* update, lines 97-98
WallCollisionOffByOne(c, w, h) ==
    c[1] < 0 \/ c[1] > w \/ c[2] < 0 \/ c[2] > h
WallCollision(c, w, h) ==
    c[1] < 0 \/ c[1] >= w \/ c[2] < 0 \/ c[2] >= h

\* update, line 103
SelfCollisionNever(c, s) == FALSE
SelfCollision(c, s) == c \in Cells(s)

\* update, line 123
StarvedAtLimit(m, limit) == m >= limit
Starved(m, limit) == m > limit

\* update, line 120
CountMoveForgotten(m) == m
CountMove(m) == m + 1

\* ------------------------------------------------------------- AIPlayer
\* the None that get_safe_direction returns when no move is legal
NoDirection == <<>>

\* get_neighbors, line 197: the order the four neighbours are tried in
NeighborDeltas == << <<0, 1>>, <<0, -1>>, <<1, 0>>, <<-1, 0>> >>

\* get_neighbors: in-bounds neighbours not on the snake, in that order
GetNeighborsThroughSnake(pos, w, h, s) ==
    LET cand == [i \in 1..4 |-> <<pos[1] + NeighborDeltas[i][1],
                                  pos[2] + NeighborDeltas[i][2]>>]
        Ok(c) == 0 <= c[1] /\ c[1] < w /\ 0 <= c[2] /\ c[2] < h
    IN  SelectSeq(cand, Ok)
GetNeighbors(pos, w, h, s) ==
    LET cand == [i \in 1..4 |-> <<pos[1] + NeighborDeltas[i][1],
                                  pos[2] + NeighborDeltas[i][2]>>]
        Ok(c) == /\ 0 <= c[1] /\ c[1] < w /\ 0 <= c[2] /\ c[2] < h
                 /\ c \notin Cells(s)
    IN  SelectSeq(cand, Ok)

\* abs()
Abs(n) == IF n < 0 THEN -n ELSE n

\* manhattan_distance
ManhattanDistance(pos1, pos2) ==
    Abs(pos1[1] - pos2[1]) + Abs(pos1[2] - pos2[2])

\* the order heapq keeps the (f, (x, y)) tuples in: Python's tuple order
HeapLess(a, b) ==
    \/ a[1] < b[1]
    \/ /\ a[1] = b[1]
       /\ \/ a[2][1] < b[2][1]
          \/ (a[2][1] = b[2][1] /\ a[2][2] < b[2][2])

\* heapq.heappop: the least entry of the heap. No entry is ever pushed twice
\* (a push needs a strictly smaller g for its node), so the heap is a set.
HeapPopLargest(open) ==
    CHOOSE e \in open : \A o \in open : o = e \/ HeapLess(o, e)
HeapPop(open) ==
    CHOOSE e \in open : \A o \in open : o = e \/ HeapLess(e, o)

\* a_star_pathfind, lines 226-233: relax the neighbours ns of current
RECURSIVE RelaxNeighbors(_, _, _, _)
RelaxNeighbors(st, current, ns, goal) ==
    IF ns = <<>> THEN st
    ELSE LET neighbor == Head(ns)
             tentative_g_score == st.g_score[current] + 1
         IN  IF \/ neighbor \notin DOMAIN st.g_score
                \/ tentative_g_score < st.g_score[neighbor]
             THEN RelaxNeighbors(
                      [open_set |-> st.open_set \cup
                           {<<tentative_g_score
                                + ManhattanDistance(neighbor, goal), neighbor>>},
                       came_from |-> (neighbor :> current) @@ st.came_from,
                       g_score |-> (neighbor :> tentative_g_score) @@ st.g_score],
                      current, Tail(ns), goal)
             ELSE RelaxNeighbors(st, current, Tail(ns), goal)

\* a_star_pathfind, lines 220-224: walk came_from back from the goal; the
\* result is already in start-to-goal order (path[::-1])
RECURSIVE ReconstructPath(_, _)
ReconstructPath(came_from, current) ==
    IF current \in DOMAIN came_from
    THEN Append(ReconstructPath(came_from, came_from[current]), current)
    ELSE <<>>

\* a_star_pathfind, lines 215-235: the while loop
RECURSIVE AStarLoop(_, _, _, _, _)
AStarLoop(st, goal, w, h, s) ==
    IF st.open_set = {} THEN <<>>
    ELSE LET e == HeapPop(st.open_set)
             current == e[2]
             popped == [st EXCEPT !.open_set = st.open_set \ {e}]
         IN  IF current = goal
             THEN ReconstructPath(st.came_from, current)
             ELSE AStarLoop(RelaxNeighbors(popped, current,
                                GetNeighbors(current, w, h, s), goal),
                            goal, w, h, s)

\* a_star_pathfind(start, goal), goal a cell
AStarPathfind(start, goal, w, h, s) ==
    AStarLoop([open_set |-> {<<0, start>>},
               came_from |-> <<>>,
               g_score |-> (start :> 0)],
              goal, w, h, s)

\* count_accessible_spaces: the breadth-first loop
RECURSIVE FloodFill(_, _, _, _, _)
FloodFill(queue, visited, w, h, s) ==
    IF queue = <<>> THEN Cardinality(visited)
    ELSE LET pos == Head(queue)
             Fresh(n) == n \notin visited
             new == SelectSeq(GetNeighbors(pos, w, h, s), Fresh)
         IN  FloodFill(Tail(queue) \o new, visited \cup Cells(new), w, h, s)

\* count_accessible_spaces(start_pos)
CountAccessibleSpaces(start_pos, w, h, s) ==
    FloodFill(<<start_pos>>, {start_pos}, w, h, s)

\* get_safe_direction, line 240: Up, Down, Left, Right
SafeDeltas == << <<0, -1>>, <<0, 1>>, <<-1, 0>>, <<1, 0>> >>

\* get_safe_direction, line 256: does this count replace the best so far
BetterSpaceOrEqual(accessible_spaces, max_space) == accessible_spaces >= max_space
BetterSpace(accessible_spaces, max_space) == accessible_spaces > max_space

\* get_safe_direction, lines 246-258: the for loop from direction i on
RECURSIVE SafeScan(_, _, _, _, _, _)
SafeScan(i, best_direction, max_space, w, h, s) ==
    IF i > 4 THEN best_direction
    ELSE LET dir == SafeDeltas[i]
             new_head == <<s[1][1] + dir[1], s[1][2] + dir[2]>>
         IN  IF /\ 0 <= new_head[1] /\ new_head[1] < w
                /\ 0 <= new_head[2] /\ new_head[2] < h
                /\ new_head \notin Cells(s)
             THEN LET accessible_spaces ==
                          CountAccessibleSpaces(new_head, w, h, s)
                  IN  IF BetterSpace(accessible_spaces, max_space)
                      THEN SafeScan(i + 1, dir, accessible_spaces, w, h, s)
                      ELSE SafeScan(i + 1, best_direction, max_space, w, h, s)
             ELSE SafeScan(i + 1, best_direction, max_space, w, h, s)

\* get_safe_direction()
GetSafeDirection(w, h, s) == SafeScan(1, NoDirection, -1, w, h, s)

\* get_next_direction(), food a cell
GetNextDirection(w, h, s, f) ==
    LET head == s[1]
        path == AStarPathfind(head, f, w, h, s)
    IN  IF path # <<>>
        THEN <<path[1][1] - head[1], path[1][2] - head[2]>>
        ELSE GetSafeDirection(w, h, s)

\* play_ai_mode, lines 416-421: direction_map
DirectionOfDeltaFlipped(t) ==
    CASE t = <<0, -1>> -> DOWN
      [] t = <<0, 1>> -> UP
      [] t = <<-1, 0>> -> LEFT
      [] t = <<1, 0>> -> RIGHT
DirectionOfDelta(t) ==
    CASE t = <<0, -1>> -> UP
      [] t = <<0, 1>> -> DOWN
      [] t = <<-1, 0>> -> LEFT
      [] t = <<1, 0>> -> RIGHT

\* ------------------------------------------------------------- operations
\* reset_game (also the body of __init__). generate_food may set the state to
\* GAME_OVER at line 65, but line 51 assigns PLAYING after it.
ResetFields(w, h) ==
    LET center_x == w \div 2
        center_y == h \div 2
        s == <<<<center_x, center_y>>, <<center_x - 1, center_y>>>>
    IN  /\ snake' = s
        /\ direction' = RIGHT
        /\ next_direction' = RIGHT
        /\ food' \in GenerateFood(w, h, s)
        /\ score' = 0
        /\ state' = PLAYING
        /\ moves_without_food' = 0
        /\ max_moves_without_food' = w * h

\* no AI query made yet
NoQuery == [start |-> <<>>, goal |-> <<>>, path |-> <<>>, safe |-> <<>>]

\* SnakeGame.__init__
InitGame ==
    /\ width \in 1..MaxWidth
    /\ height \in 1..MaxHeight
    /\ width * height <= MaxCells
    /\ snake = <<<<width \div 2, height \div 2>>,
                 <<(width \div 2) - 1, height \div 2>>>>
    /\ direction = RIGHT
    /\ next_direction = RIGHT
    /\ food \in GenerateFood(width, height, snake)
    /\ score = 0
    /\ state = PLAYING
    /\ moves_without_food = 0
    /\ max_moves_without_food = width * height
    /\ lastOp = "init"
    /\ lastArg = "none"
    /\ branch = "reset"
    /\ lastAccepted = "none"

\* a SnakeGame driven through its methods, outside the game loops
Init ==
    /\ InitGame
    /\ pc = "api"
    /\ mode = "api"
    /\ ai = NoQuery

\* reset_game()
DoResetGame ==
    /\ ResetFields(width, height)
    /\ UNCHANGED <<width, height>>
    /\ lastOp' = "reset_game"
    /\ lastArg' = "none"
    /\ branch' = "reset"
    /\ lastAccepted' = "none"

ResetGame == DoResetGame /\ UNCHANGED loopVars

\* change_direction(new_direction)
DoChangeDirection(new_direction) ==
    /\ next_direction' =
           IF IsValidDirectionChange(direction, new_direction)
           THEN new_direction ELSE next_direction
    /\ UNCHANGED <<width, height, snake, direction, food, score, state,
                   moves_without_food, max_moves_without_food, branch>>
    /\ lastOp' = "change_direction"
    /\ lastArg' = new_direction
    /\ lastAccepted' =
           IF IsValidDirectionChange(direction, new_direction)
           THEN new_direction ELSE lastAccepted

ChangeDirection ==
    \E new_direction \in Direction :
        DoChangeDirection(new_direction) /\ UNCHANGED loopVars

\* update()
DoUpdate ==
    /\ lastOp' = "update"
    /\ lastArg' = "none"
    /\ lastAccepted' = "none"
    /\ UNCHANGED <<width, height, max_moves_without_food>>
    /\ IF ~UpdateActs(state)
       THEN UNCHANGED <<snake, direction, next_direction, food, score, state,
                        moves_without_food, branch>>
       ELSE
         LET d == ResolvedDirection(direction, next_direction)
             new_head == NewHead(snake, d)
         IN  /\ direction' = d
             /\ UNCHANGED next_direction
             /\ IF WallCollision(new_head, width, height)
                THEN /\ state' = GAME_OVER
                     /\ branch' = "wall"
                     /\ UNCHANGED <<snake, food, score, moves_without_food>>
                ELSE IF SelfCollision(new_head, snake)
                THEN /\ state' = GAME_OVER
                     /\ branch' = "self"
                     /\ UNCHANGED <<snake, food, score, moves_without_food>>
                ELSE IF new_head = food
                THEN LET grown == <<new_head>> \o snake
                     IN  /\ snake' = grown
                         /\ score' = score + 1
                         /\ moves_without_food' = 0
                         /\ food' \in GenerateFood(width, height, grown)
                         /\ state' = GenerateFoodState(width, height, grown, state)
                         /\ branch' = IF food' = NoFood THEN "full" ELSE "eat"
                ELSE /\ snake' = <<new_head>> \o PopTail(snake)
                     /\ moves_without_food' = CountMove(moves_without_food)
                     /\ UNCHANGED <<food, score>>
                     /\ IF Starved(CountMove(moves_without_food),
                                   max_moves_without_food)
                        THEN state' = GAME_OVER /\ branch' = "starve"
                        ELSE state' = state /\ branch' = "move"

Update == DoUpdate /\ UNCHANGED loopVars

\* the P key of play_human_mode / play_ai_mode
DoTogglePause ==
    /\ state \in {PLAYING, PAUSED}
    /\ state' = IF state = PLAYING THEN PAUSED ELSE PLAYING
    /\ UNCHANGED <<width, height, snake, direction, next_direction, food,
                   score, moves_without_food, max_moves_without_food, branch>>
    /\ lastOp' = "pause"
    /\ lastArg' = "none"
    /\ UNCHANGED lastAccepted

TogglePause == DoTogglePause /\ UNCHANGED loopVars

\* the Q key of play_human_mode / play_ai_mode (the loops run only while the
\* state is neither GAME_OVER nor QUIT)
DoQuit ==
    /\ state \notin {GAME_OVER, QUIT}
    /\ state' = QUIT
    /\ UNCHANGED <<width, height, snake, direction, next_direction, food,
                   score, moves_without_food, max_moves_without_food, branch>>
    /\ lastOp' = "quit"
    /\ lastArg' = "none"
    /\ UNCHANGED lastAccepted

Quit == DoQuit /\ UNCHANGED loopVars

Next ==
    \/ ResetGame
    \/ ChangeDirection
    \/ Update
    \/ TogglePause
    \/ Quit

Spec == Init /\ [][Next]_vars

\* Uninterrupted play: only direction requests and updates, and the scheduler
\* (the game loop's timer) keeps calling update.
NextPlay ==
    \/ ChangeDirection
    \/ Update

SpecPlay == Init /\ [][NextPlay]_vars /\ WF_vars(Update)

\* ------------------------------------------- the AI player's queries alone
\* every cell of a w x h board
BoardCells(w, h) == {<<x, y>> : x \in 0..(w - 1), y \in 0..(h - 1)}

\* the cells of S as a sequence (the AI player only tests membership in the
\* snake, so the order of the cells behind the head is immaterial)
RECURSIVE SeqOfCells(_)
SeqOfCells(S) ==
    IF S = {} THEN <<>>
    ELSE LET c == CHOOSE a \in S : \A b \in S :
                      a[1] < b[1] \/ (a[1] = b[1] /\ a[2] <= b[2])
         IN  <<c>> \o SeqOfCells(S \ {c})

\* An AIPlayer on a game whose snake is any head followed by any set of other
\* board cells, asked for a path between any two board cells.
InitQuery ==
    /\ width \in 1..MaxWidth
    /\ height \in 1..MaxHeight
    /\ width * height <= MaxCells
    /\ snake \in {<<head>> \o SeqOfCells(rest) :
                     head \in BoardCells(width, height),
                     rest \in SUBSET BoardCells(width, height)}
    /\ Cardinality(Cells(snake)) = Len(snake)
    /\ ai \in [start : BoardCells(width, height),
               goal : BoardCells(width, height),
               path : {<<>>}, safe : {<<>>}]
    /\ food = ai.goal
    /\ direction = RIGHT
    /\ next_direction = RIGHT
    /\ score = 0
    /\ state = PLAYING
    /\ moves_without_food = 0
    /\ max_moves_without_food = width * height
    /\ lastOp = "init"
    /\ lastArg = "none"
    /\ branch = "reset"
    /\ lastAccepted = "none"
    /\ pc = "query"
    /\ mode = "query"

\* a_star_pathfind(start, goal)
Pathfind ==
    /\ pc = "query"
    /\ ai' = [ai EXCEPT !.path =
                 AStarPathfind(ai.start, ai.goal, width, height, snake)]
    /\ pc' = "path_done"
    /\ UNCHANGED <<width, height, snake, direction, next_direction, food,
                   score, state, moves_without_food, max_moves_without_food,
                   lastOp, lastArg, branch, lastAccepted, mode>>

\* get_safe_direction()
SafeDirection ==
    /\ pc = "path_done"
    /\ ai' = [ai EXCEPT !.safe = GetSafeDirection(width, height, snake)]
    /\ pc' = "answered"
    /\ UNCHANGED <<width, height, snake, direction, next_direction, food,
                   score, state, moves_without_food, max_moves_without_food,
                   lastOp, lastArg, branch, lastAccepted, mode>>

NextQuery ==
    \/ Pathfind
    \/ SafeDirection

SpecQuery == InitQuery /\ [][NextQuery]_vars

\* ------------------------------------------------------- the game loops
\* play_human_mode (mode "human") and play_ai_mode (mode "ai"). pc is the
\* position in the loop body: "top" the while test, "key" the key handling,
\* "decide" the AI's decision, "tick" the timed update, "exit" after the
\* loop, "crashed" after an uncaught exception.
gameVars == <<width, height, snake, direction, next_direction, food, score,
              state, moves_without_food, max_moves_without_food,
              lastOp, lastArg, branch, lastAccepted>>

\* what get_key() may return: "" stands for None (no key waiting), "X" for
\* any key the loops do not handle
Keys == {"", "Q", "P", "R", "W", "S", "A", "D",
         "UP", "DOWN", "LEFT", "RIGHT", "X"}

\* play_human_mode, lines 372-377: direction_map
KeyDirection(key) ==
    CASE key \in {"W", "UP"} -> UP
      [] key \in {"S", "DOWN"} -> DOWN
      [] key \in {"A", "LEFT"} -> LEFT
      [] key \in {"D", "RIGHT"} -> RIGHT

InitLoop ==
    /\ InitGame
    /\ pc = "top"
    /\ mode \in {"human", "ai"}
    /\ ai = NoQuery

\* the while condition, lines 357 / 397
LoopRuns(st) == st \notin {GAME_OVER, QUIT}

LoopTest ==
    /\ pc = "top"
    /\ pc' = IF LoopRuns(state) THEN "key" ELSE "exit"
    /\ UNCHANGED <<gameVars, mode, ai>>

\* the key handling, lines 361-379 / 401-409
HandleKey ==
    /\ pc = "key"
    /\ UNCHANGED <<mode, ai>>
    /\ \E key \in Keys :
         IF key = "Q"
         THEN DoQuit /\ pc' = "exit"
         ELSE /\ pc' = IF mode = "ai" THEN "decide" ELSE "tick"
              /\ IF key = "P" /\ state \in {PLAYING, PAUSED}
                 THEN DoTogglePause
                 ELSE IF key = "R" /\ state = GAME_OVER
                 THEN DoResetGame
                 ELSE IF /\ mode = "human"
                         /\ state = PLAYING
                         /\ key \in {"W", "S", "A", "D",
                                     "UP", "DOWN", "LEFT", "RIGHT"}
                 THEN DoChangeDirection(KeyDirection(key))
                 ELSE UNCHANGED gameVars

\* the AI's decision, lines 411-423. With no food on the board
\* a_star_pathfind(head, None) raises TypeError in manhattan_distance
\* (line 213), which nothing catches.
AIDecide ==
    /\ pc = "decide"
    /\ UNCHANGED mode
    /\ IF state # PLAYING
       THEN pc' = "tick" /\ UNCHANGED <<gameVars, ai>>
       ELSE IF food = NoFood
       THEN pc' = "crashed" /\ UNCHANGED <<gameVars, ai>>
       ELSE LET path == AStarPathfind(snake[1], food, width, height, snake)
                ai_direction == GetNextDirection(width, height, snake, food)
            IN  /\ pc' = "tick"
                /\ ai' = [start |-> snake[1], goal |-> food, path |-> path,
                          safe |-> IF path = <<>>
                                   THEN GetSafeDirection(width, height, snake)
                                   ELSE NoDirection]
                /\ IF ai_direction # NoDirection
                   THEN DoChangeDirection(DirectionOfDelta(ai_direction))
                   ELSE UNCHANGED gameVars

\* the timed update, lines 381-384 / 425-429: the interval has elapsed or not
Tick ==
    /\ pc = "tick"
    /\ pc' = "top"
    /\ UNCHANGED <<mode, ai>>
    /\ \E due \in BOOLEAN :
         IF due THEN DoUpdate ELSE UNCHANGED gameVars

NextLoop ==
    \/ LoopTest
    \/ HandleKey
    \/ AIDecide
    \/ Tick

SpecLoop == InitLoop /\ [][NextLoop]_vars

TypeOK ==
    /\ width \in 1..MaxWidth
    /\ height \in 1..MaxHeight
    /\ width * height <= MaxCells
    /\ direction \in Direction
    /\ next_direction \in Direction
    /\ state \in GameState
    /\ score \in Nat
    /\ moves_without_food \in Nat
    /\ Len(snake) >= 2

\* ------------------------------------------------------ reference notions
\* (stated directly from the claims, independently of the engine's helpers)
Opposite(d) ==
    CASE d = UP -> DOWN
      [] d = DOWN -> UP
      [] d = LEFT -> RIGHT
      [] d = RIGHT -> LEFT

InBoard(c) == c[1] >= 0 /\ c[1] < width /\ c[2] >= 0 /\ c[2] < height

Board == {<<x, y>> : x \in 0..(width - 1), y \in 0..(height - 1)}

FreeCells(s) == Board \ {s[i] : i \in 1..Len(s)}

\* the cell the head enters when the step is made in direction d
Ahead(d) == <<snake[1][1] + Delta(d)[1], snake[1][2] + Delta(d)[2]>>

\* this step is an update() call made in status Playing
PlayingUpdate == lastOp' = "update" /\ state = PLAYING

\* ------------------------------------------------------------------- C1
\* C1 (as stated): an update never moves the head in the exact reverse of the
\* direction held before it, and after a request for the reverse of the
\* current direction the next update leaves direction unchanged.
C1_ReverseRequestKeepsDirection ==
    [][ /\ (PlayingUpdate => direction' # Opposite(direction))
        /\ (/\ lastOp = "change_direction"
            /\ lastArg = Opposite(direction)
            /\ PlayingUpdate
            => direction' = direction) ]_vars

\* C1 (amended): an update never moves the head in the exact reverse of the
\* direction held before it; a request for the reverse of the current
\* direction is rejected (direction and the pending direction keep their
\* values), so the next update leaves direction unchanged whenever no other
\* direction was pending when the request was made.
C1_NoInstantReversal ==
    [][ /\ (PlayingUpdate => direction' # Opposite(direction))
        /\ (/\ lastOp' = "change_direction"
            /\ lastArg' = Opposite(direction)
            => next_direction' = next_direction /\ direction' = direction)
        /\ (/\ lastOp = "change_direction"
            /\ lastArg = Opposite(direction)
            /\ next_direction = direction
            /\ PlayingUpdate
            => direction' = direction) ]_vars

\* the reverse of the current direction has just been requested while playing
C1_Witness ==
    /\ lastOp = "change_direction"
    /\ lastArg = Opposite(direction)
    /\ next_direction = direction
    /\ state = PLAYING
    /\ score > 0

\* ------------------------------------------------------------------- C2
\* C2: an update in status Playing whose new head is out of bounds or on a
\* cell of the snake as it stands before the move (tail included) sets the
\* status to GameOver and leaves snake, food, score and the starvation
\* counter as they were.
C2_CollisionEndsGame ==
    [][ (/\ PlayingUpdate
         /\ \/ ~InBoard(Ahead(direction'))
            \/ Ahead(direction') \in Cells(snake))
        => /\ state' = GAME_OVER
           /\ UNCHANGED <<snake, food, score, moves_without_food>> ]_vars

\* an update has just ended the game by running the head into the tail cell
C2_Witness ==
    /\ lastOp = "update"
    /\ state = GAME_OVER
    /\ branch = "self"
    /\ Ahead(direction) = snake[Len(snake)]

\* ------------------------------------------------------------------- C3
\* C3: an update in status Playing whose new head is in bounds, off the snake
\* and on the food adds 1 to the score, prepends the new head without removing
\* the tail, zeroes the starvation counter and replaces the food by a cell the
\* grown snake does not occupy, or by none when there is no such cell.
C3_EatingGrows ==
    [][ (/\ PlayingUpdate
         /\ InBoard(Ahead(direction'))
         /\ Ahead(direction') \notin Cells(snake)
         /\ Ahead(direction') = food)
        => /\ score' = score + 1
           /\ Len(snake') = Len(snake) + 1
           /\ snake' = <<Ahead(direction')>> \o snake
           /\ moves_without_food' = 0
           /\ IF FreeCells(snake') = {}
              THEN food' = NoFood
              ELSE food' \in FreeCells(snake') ]_vars

\* an update has just eaten after some non-eating moves
C3_Witness ==
    /\ lastOp = "update"
    /\ branch = "eat"
    /\ state = PLAYING
    /\ score >= 2
    /\ Len(snake) = score + 2

\* ------------------------------------------------------------------- C4
\* C4: an update in status Playing whose new head is in bounds, off the snake
\* and not on the food keeps length, score and food, adds 1 to the starvation
\* counter, and ends the game iff the incremented counter exceeds
\* width*height; while playing the counter never exceeds width*height.
C4_PlainMoveStarvation ==
    [][ /\ (state = PLAYING => moves_without_food <= width * height)
        /\ (/\ PlayingUpdate
            /\ InBoard(Ahead(direction'))
            /\ Ahead(direction') \notin Cells(snake)
            /\ Ahead(direction') # food)
           => /\ Len(snake') = Len(snake)
              /\ snake'[1] = Ahead(direction')
              /\ score' = score
              /\ food' = food
              /\ moves_without_food' = moves_without_food + 1
              /\ (state' = GAME_OVER
                    <=> moves_without_food + 1 > width * height)
              /\ state' \in {PLAYING, GAME_OVER} ]_vars

\* an update has just ended the game by starvation
C4_Witness ==
    /\ lastOp = "update"
    /\ branch = "starve"
    /\ state = GAME_OVER
    /\ moves_without_food = width * height + 1

\* ------------------------------------------------------------------- C5
\* C5: while the status is Playing and the snake does not fill the board, the
\* food is one in-bounds cell off the snake; food placement returns exactly
\* the free cells (any of them, nothing else), hence the only one when there
\* is exactly one.
C5_FoodOnFreeCell ==
    (state = PLAYING /\ FreeCells(snake) # {})
    => /\ food # NoFood
       /\ InBoard(food)
       /\ food \notin Cells(snake)
       /\ GenerateFood(width, height, snake) = FreeCells(snake)
       /\ (\A c \in FreeCells(snake) :
              FreeCells(snake) = {c} => food = c)

\* food has just been placed on the only free cell of the board
C5_Witness ==
    /\ state = PLAYING
    /\ lastOp = "update"
    /\ branch = "eat"
    /\ Cardinality(FreeCells(snake)) = 1
    /\ FreeCells(snake) = {food}

\* ------------------------------------------------------------------- C6
\* C6: on boards with width >= 2 (and height >= 1), in every reachable state
\* the snake's cells are pairwise distinct and all within bounds.
C6_SnakeDistinctInBounds ==
    (width >= 2 /\ height >= 1)
    => /\ \A i, j \in 1..Len(snake) : i # j => snake[i] # snake[j]
       /\ \A i \in 1..Len(snake) : InBoard(snake[i])

\* a grown snake in a GameOver state reached by self-collision
C6_Witness ==
    /\ width >= 2
    /\ state = GAME_OVER
    /\ branch = "self"
    /\ Len(snake) >= 5

\* ------------------------------------------------------------------- C7
\* C7: when update keeps being called and the game is not paused, quit or
\* reset, every Playing state is eventually followed by GameOver.
C7_PlayEnds == (state = PLAYING) ~> (state = GAME_OVER)

\* uninterrupted play has been cut off by the starvation guard after eating
C7_Witness ==
    /\ state = GAME_OVER
    /\ branch = "starve"
    /\ score > 0

\* ------------------------------------------------------------------- C8
\* C8: whenever food placement finds no empty cell, be it called by update
\* after a consumption or by reset_game, the food is none and the status is
\* GameOver when the calling operation returns.
C8_FullBoardEndsGame ==
    /\ (lastOp \in {"init", "reset_game"} /\ FreeCells(snake) = {})
       => (food = NoFood /\ state = GAME_OVER)
    /\ (lastOp = "update" /\ branch = "full")
       => (food = NoFood /\ state = GAME_OVER)

\* ------------------------------------------------------------------- C9
\* C9: in every GameOver state the snake length equals width*height iff the
\* game ended because food placement found the board full.
C9_WinDistinguishable ==
    state = GAME_OVER
    => ((Len(snake) = width * height) <=> branch = "full")

\* ------------------------------------------------------------------ C10
\* C10: update called in status Paused, GameOver or Quit changes none of
\* snake, direction, pending direction, food, score, starvation counter and
\* status.
C10_UpdateNoOpUnlessPlaying ==
    [][ (lastOp' = "update" /\ state \in {PAUSED, GAME_OVER, QUIT})
        => UNCHANGED <<snake, direction, next_direction, food, score,
                       moves_without_food, state>> ]_vars

\* update has just been called while paused with a different direction pending
C10_Witness ==
    /\ lastOp = "update"
    /\ state = PAUSED
    /\ next_direction # direction
    /\ IsValidDirectionChange(direction, next_direction)

\* ------------------------------------------------------------------ C16
\* this state is the one reset_game (or the constructor) has just produced
FreshReset == lastOp \in {"init", "reset_game"}

\* C16 (as stated): from the state reset_game produces, on a board where the
\* cell ahead of the head is in bounds, one update with no direction change
\* leaves the snake at length 2 and moves the head by the direction's delta,
\* wherever the food was placed.
C16_FirstStepKeepsLength ==
    [][ (/\ FreshReset
         /\ InBoard(Ahead(direction))
         /\ PlayingUpdate)
        => /\ Len(snake') = 2
           /\ snake'[1] = Ahead(direction) ]_vars

\* C16 (amended): from the state reset_game produces, on a board where the
\* cell ahead of the head is in bounds, one update with no direction change
\* moves the head by the direction's delta; the snake stays at length 2 for
\* every food cell other than the cell ahead, and grows to length 3 (score 1)
\* when the food was placed on the cell ahead.
C16_FirstStep ==
    [][ (/\ FreshReset
         /\ InBoard(Ahead(direction))
         /\ PlayingUpdate)
        => /\ snake'[1] = Ahead(direction)
           /\ direction' = direction
           /\ snake'[2] = snake[1]
           /\ IF food = Ahead(direction)
              THEN Len(snake') = 3 /\ score' = 1
              ELSE Len(snake') = 2 /\ score' = 0 /\ snake' = <<Ahead(direction), snake[1]>> ]_vars

\* the first update after a reset has moved the length-2 snake one cell right
C16_Witness ==
    /\ lastOp = "update"
    /\ branch = "move"
    /\ moves_without_food = 1
    /\ score = 0
    /\ direction = RIGHT
    /\ snake = <<<<(width \div 2) + 1, height \div 2>>,
                 <<width \div 2, height \div 2>>>>

\* ------------------------------------------------------------------ C18
\* C18: the pending direction is never the reverse of the current direction,
\* so update's re-check never drops it: after every update made in status
\* Playing, direction equals next_direction (and equals the direction that
\* was pending before the update).
C18_PendingNeverReverse ==
    [][ /\ next_direction # Opposite(direction)
        /\ next_direction' # Opposite(direction')
        /\ (PlayingUpdate
            => direction' = next_direction' /\ direction' = next_direction) ]_vars

\* an update has just applied a pending turn
C18_Witness ==
    /\ lastOp = "update"
    /\ branch \in {"move", "eat"}
    /\ direction = next_direction
    /\ direction \in {UP, DOWN}
    /\ snake[2] = <<snake[1][1] - Delta(direction)[1],
                    snake[1][2] - Delta(direction)[2]>>

\* ------------------------------------------------------------------ C19
Adjacent4(a, b) ==
    \/ (a[1] = b[1] /\ (a[2] - b[2] = 1 \/ b[2] - a[2] = 1))
    \/ (a[2] = b[2] /\ (a[1] - b[1] = 1 \/ b[1] - a[1] = 1))

BodyConnected ==
    /\ Len(snake) >= 2
    /\ \A i \in 1..(Len(snake) - 1) : Adjacent4(snake[i], snake[i + 1])

NeckBehindHead ==
    snake[2] = <<snake[1][1] - Delta(direction)[1],
                 snake[1][2] - Delta(direction)[2]>>

\* C19 (as stated): in every reachable state the snake has at least 2 cells,
\* consecutive cells are 4-adjacent and the neck is the head minus the
\* current direction's delta.
C19_NeckAlwaysBehindHead == BodyConnected /\ NeckBehindHead

\* C19 (amended): in every reachable state the snake has at least 2 cells and
\* consecutive cells are 4-adjacent; the neck is the head minus the current
\* direction's delta in every state except a GameOver state reached by a
\* wall or self collision, where update adopted the pending direction but
\* left the snake where it was.
C19_NeckBehindHeadUnlessCrashed ==
    /\ BodyConnected
    /\ (~(state = GAME_OVER /\ branch \in {"wall", "self"}) => NeckBehindHead)

\* a grown snake that has just turned, playing on
C19_Witness ==
    /\ state = PLAYING
    /\ lastOp = "update"
    /\ Len(snake) >= 4
    /\ direction # RIGHT
    /\ NeckBehindHead

C12_SinglePending ==
    [][ /\ (lastAccepted # "none" => next_direction = lastAccepted)
        /\ (lastOp' = "change_direction"
            => /\ UNCHANGED <<snake, direction, food, score, state,
                              moves_without_food>>
               /\ (lastArg' = Opposite(direction)
                   => next_direction' = next_direction)
               /\ (lastArg' # Opposite(direction)
                   => next_direction' = lastArg'))
        /\ (PlayingUpdate /\ lastAccepted # "none"
            => /\ direction' = lastAccepted
               /\ (state' = PLAYING => snake'[1] = Ahead(lastAccepted))) ]_vars

\* a turn was accepted and a later request for the reverse was rejected
C12_Witness ==
    /\ state = PLAYING
    /\ lastOp = "change_direction"
    /\ lastArg = Opposite(direction)
    /\ lastAccepted \in Direction \ {direction}
    /\ next_direction = lastAccepted

\* ------------------------------------------------------------------ C13
\* C13: when the goal is not on the snake, a non-empty path returned by
\* a_star_pathfind(start, goal) does not contain start, begins next to start,
\* ends at goal, moves between 4-adjacent cells and only visits in-bounds
\* cells off the snake.
C13_PathWellFormed ==
    (/\ pc \in {"path_done", "answered"}
     /\ ai.goal \notin Cells(snake)
     /\ ai.path # <<>>)
    => /\ \A i \in 1..Len(ai.path) : ai.path[i] # ai.start
       /\ Adjacent4(ai.start, ai.path[1])
       /\ ai.path[Len(ai.path)] = ai.goal
       /\ \A i \in 1..(Len(ai.path) - 1) :
              Adjacent4(ai.path[i], ai.path[i + 1])
       /\ \A i \in 1..Len(ai.path) :
              InBoard(ai.path[i]) /\ ai.path[i] \notin Cells(snake)

\* a path of at least four cells that has to go round the snake
C13_Witness ==
    /\ pc = "path_done"
    /\ ai.goal \notin Cells(snake)
    /\ Len(ai.path) >= 4
    /\ Len(ai.path) > ManhattanDistance(ai.start, ai.goal)

\* ------------------------------------------------------------------ C14
\* breadth-first reference: the number of steps from the cells of frontier
\* (at distance d from the start) to goal through free cells, -1 if none
RECURSIVE RefDistance(_, _, _, _)
RefDistance(frontier, seen, d, goal) ==
    IF goal \in frontier THEN d
    ELSE IF frontier = {} THEN -1
    ELSE LET nxt == {c \in Board \ (Cells(snake) \cup seen) :
                        \E f \in frontier : Adjacent4(f, c)}
         IN  RefDistance(nxt, seen \cup nxt, d + 1, goal)

\* C14: for a goal different from start and not on the snake,
\* a_star_pathfind returns the empty path exactly when the breadth-first
\* reference finds the goal unreachable, and otherwise a path whose length is
\* the reference's shortest distance.
C14_PathShortest ==
    (/\ pc \in {"path_done", "answered"}
     /\ ai.goal # ai.start
     /\ ai.goal \notin Cells(snake))
    => LET dist == RefDistance({ai.start}, {ai.start}, 0, ai.goal)
       IN  /\ (ai.path = <<>> <=> dist = -1)
           /\ (ai.path # <<>> => Len(ai.path) = dist)

\* a shortest path that is a detour round the snake
C14_Witness ==
    /\ pc = "answered"
    /\ ai.goal \notin Cells(snake)
    /\ ai.start \in Cells(snake)
    /\ Len(ai.path) = ManhattanDistance(ai.start, ai.goal) + 2

\* ------------------------------------------------------------------ C15
\* flood-fill reference: the free cells reachable from the cells of S
RECURSIVE RefReachable(_)
RefReachable(S) ==
    LET nxt == S \cup {c \in Board \ Cells(snake) :
                          \E f \in S : Adjacent4(f, c)}
    IN  IF nxt = S THEN S ELSE RefReachable(nxt)

\* the cell the head enters by the i-th direction of Up, Down, Left, Right
RefTarget(i) ==
    <<snake[1][1] + Delta(<<UP, DOWN, LEFT, RIGHT>>[i])[1],
      snake[1][2] + Delta(<<UP, DOWN, LEFT, RIGHT>>[i])[2]>>

RefLegal(i) == InBoard(RefTarget(i)) /\ RefTarget(i) \notin Cells(snake)

RefSpace(i) == Cardinality(RefReachable({RefTarget(i)}))

\* C15: get_safe_direction returns none exactly when no neighbour of the head
\* is in bounds and free; otherwise it returns a legal direction whose target
\* has the greatest flood-fill count, the first such in the order Up, Down,
\* Left, Right.
C15_SafeDirectionBest ==
    pc = "answered"
    => /\ (ai.safe = NoDirection <=> \A i \in 1..4 : ~RefLegal(i))
       /\ (ai.safe # NoDirection
           => \E i \in 1..4 :
                 /\ ai.safe = Delta(<<UP, DOWN, LEFT, RIGHT>>[i])
                 /\ RefLegal(i)
                 /\ \A j \in 1..4 : RefLegal(j) => RefSpace(j) <= RefSpace(i)
                 /\ \A j \in 1..(i - 1) :
                        RefLegal(j) => RefSpace(j) < RefSpace(i))

\* Left is chosen while Right is legal too and ties with it
C15_Witness ==
    /\ pc = "answered"
    /\ ai.safe = <<-1, 0>>
    /\ RefLegal(4)
    /\ RefSpace(4) = RefSpace(3)
    /\ RefSpace(3) >= 2

\* ------------------------------------------------------------------ C11
\* C11: in the game loops, once the status is GameOver the R key can still be
\* delivered to the loop's key handling (which resets the game to Playing):
\* the loop has not been left while the status is GameOver.
C11_ResetDeliverableAfterGameOver ==
    state = GAME_OVER => pc \in {"top", "key", "decide", "tick"}

\* ------------------------------------------------------------------ C17
\* C17: in AI mode on a board with width >= 2, a GameOver by wall or self
\* collision only happens with all four neighbours of the head out of bounds
\* or on the snake (the colliding update leaves the snake where it was), and
\* a direction the AI requests is never rejected as a reversal.
AIBoxedIn == \A i \in 1..4 : ~RefLegal(i)

AICrashOnlyBoxedIn ==
    (/\ mode = "ai"
     /\ width >= 2
     /\ state = GAME_OVER
     /\ branch \in {"wall", "self"})
    => AIBoxedIn

C17_AICollidesOnlyBoxedIn ==
    [][ /\ AICrashOnlyBoxedIn
        /\ AICrashOnlyBoxedIn'
        /\ (/\ mode = "ai"
            /\ width >= 2
            /\ PlayingUpdate
            /\ branch' \in {"wall", "self"}
            /\ state' = GAME_OVER
            => AIBoxedIn)
        /\ (/\ mode = "ai"
            /\ width >= 2
            /\ pc = "decide"
            /\ lastOp' = "change_direction"
            => /\ lastArg' # Opposite(direction)
               /\ next_direction' = lastArg') ]_vars

\* the AI, boxed in after eating, had no direction to request and the update
\* ran the head into the wall
C17_Witness ==
    /\ mode = "ai"
    /\ width >= 2
    /\ lastOp = "update"
    /\ state = GAME_OVER
    /\ branch = "wall"
    /\ score > 0
    /\ ai.path = <<>>
    /\ ai.safe = NoDirection
    /\ AIBoxedIn
====
